---- MODULE Spec2Model ----
(***************************************************************************)
(* Model of the homework tracker: the five tables of models.py and the     *)
(* request handlers of app.py.                                             *)
(*                                                                         *)
(* A table is the sequence of its rows; a row's primary key is its         *)
(* position (SQLite hands out max(rowid)+1 and no handler deletes).        *)
(* A form field is <<>> when the request does not carry it                 *)
(* (request.form.get gives None) and <<v>> when it carries the value v.    *)
(* Times are whole days.  A due date arrives as the two characters of the  *)
(* day of the month of an ISO date.  Thread messages are sequences of      *)
(* characters, so that str.strip is computed; other text is atomic.        *)
(* Columns that no handler reads back (title, description, color,          *)
(* created_at, submitted_at, grade, feedback) are left out of the rows.    *)
(***************************************************************************)
EXTENDS Integers, Sequences, FiniteSets, TLC

VARIABLES homeworks, users, threads, resources, submissions, resp, pc, plocal

store == <<homeworks, users, threads, resources, submissions>>
procs == <<pc, plocal>>
vars == <<homeworks, users, threads, resources, submissions, resp, pc, plocal>>

-----------------------------------------------------------------------------
(* Bounds of the model *)

\* rows create_homework may add up to (the seed adds its three regardless)
MaxHomework == 1
\* rows of users, threads, resources and submissions together
MaxRows == 4
\* the clock readings are 1..MaxNow
MaxNow == 2
\* rows create_homework may add up to where the homepage's limit is met
MaxListed == 11
\* requests in flight together
NumProcs == 2

-----------------------------------------------------------------------------
(* Form fields and text *)

Absent == <<>>

Given(v) == <<v>>

\* Python truthiness of form.get(...): None and "" are falsy
Truthy(f) == f # Absent /\ f[1] # ""

\* `form.get(k) or default`
OrDefault(f, default) == IF Truthy(f) THEN f[1] ELSE default

Whitespace == {" "}

RECURSIVE LStrip(_)
LStrip(s) == IF s # <<>> /\ Head(s) \in Whitespace THEN LStrip(Tail(s)) ELSE s

RECURSIVE RStrip(_)
RStrip(s) ==
    IF s # <<>> /\ s[Len(s)] \in Whitespace THEN RStrip(SubSeq(s, 1, Len(s) - 1)) ELSE s

\* str.lstrip()
StripLeft(s) == LStrip(s)

\* str.strip()
Strip(s) == RStrip(LStrip(s))

\* form.get("message", "").strip()
MessageOf(f) == Strip(IF f = Absent THEN <<>> ELSE f[1])

DigitVal ==
    ("0" :> 0) @@ ("1" :> 1) @@ ("2" :> 2) @@ ("3" :> 3) @@ ("4" :> 4) @@
    ("5" :> 5) @@ ("6" :> 6) @@ ("7" :> 7) @@ ("8" :> 8) @@ ("9" :> 9)

ValueError == -1

\* datetime.fromisoformat on the day field: two digits naming a day 01..31,
\* anything else raises ValueError
FromIsoFormat(s) ==
    IF Len(s) = 2 /\ s[1] \in DOMAIN DigitVal /\ s[2] \in DOMAIN DigitVal
    THEN LET d == 10 * DigitVal[s[1]] + DigitVal[s[2]]
         IN IF d >= 1 /\ d <= 31 THEN d ELSE ValueError
    ELSE ValueError

-----------------------------------------------------------------------------
(* Forms and responses *)

NoForm ==
    [subject |-> Absent, due_date |-> Absent, author |-> Absent, message |-> Absent,
     title |-> Absent, url |-> Absent, student_name |-> Absent, content |-> Absent]

NoStats == [total |-> 0, pending |-> 0, completed |-> 0, subjects |-> <<>>]

Response(status, flash, body) ==
    [status |-> status, flash |-> flash, body |-> body, upcoming |-> <<>>,
     stats |-> NoStats]

NoResponse == Response(0, "", "")

NotFound == Response(404, "", "")

BadRequest == Response(400, "", "")

ServerError == Response(500, "", "")

Redirect(flash) == Response(302, flash, "")

Render(body) == Response(200, "", body)

\* a lookup that lets the next free id through
ExistsOrNext(hw_id) == hw_id \in 1..(Len(homeworks) + 1)

\* Homework.query.get_or_404
Exists(hw_id) == hw_id \in 1..Len(homeworks)

-----------------------------------------------------------------------------
(* Rows *)

HomeworkRow(subject, due_date) == [subject |-> subject, due_date |-> due_date]

UserRow(name) == [name |-> name, is_teacher |-> FALSE]

ThreadRow(hw_id, author, message) ==
    [homework_id |-> hw_id, author |-> author, message |-> message]

ResourceRow(hw_id, title, url) == [homework_id |-> hw_id, title |-> title, url |-> url]

SubmissionRow(hw_id, student_id, content) ==
    [homework_id |-> hw_id, student_id |-> student_id, content |-> content]

-----------------------------------------------------------------------------
(* Queries *)

\* Homework.due_date > now
DueAfter(hws, now) == {i \in 1..Len(hws) : hws[i].due_date > now}

\* Homework.query.filter(Homework.due_date >= now)
DueFrom(hws, now) == {i \in 1..Len(hws) : hws[i].due_date >= now}

\* ORDER BY due_date; SQL leaves the order of equal keys open: `tie` picks
\* between ascending and descending primary key
Before(hws, i, j, tie) ==
    \/ hws[i].due_date < hws[j].due_date
    \/ hws[i].due_date = hws[j].due_date /\ (IF tie THEN i <= j ELSE i >= j)

RECURSIVE OrderBy(_, _, _)
OrderBy(hws, ids, tie) ==
    IF ids = {} THEN <<>>
    ELSE LET first == CHOOSE i \in ids : \A j \in ids : Before(hws, i, j, tie)
         IN <<first>> \o OrderBy(hws, ids \ {first}, tie)

Limit == 10

\* .limit(n)
Take(s, n) == SubSeq(s, 1, IF Len(s) < n THEN Len(s) ELSE n)

\* the query of index(): filter, order_by, limit, all
Upcoming(hws, now, tie) == Take(OrderBy(hws, DueFrom(hws, now), tie), Limit)

\* Homework.query.count()
Total(hws) == Len(hws)

\* Homework.query.filter(Homework.due_date >= now).count()
Pending(hws, now) == Cardinality(DueFrom(hws, now))

\* counts every submission row, distinct or not
CompletedPerRow(subs) == Len(subs)

\* Submission.query.with_entities(Submission.homework_id).distinct().count()
Completed(subs) == Cardinality({subs[i].homework_id : i \in 1..Len(subs)})

NewBucket == [total |-> 0, submitted |-> 0]

\* first loop of dashboard(): setdefault, then total += 1
RECURSIVE CountHomeworks(_, _)
CountHomeworks(hws, subjects) ==
    IF hws = <<>> THEN subjects
    ELSE LET subj == Head(hws).subject
             d == IF subj \in DOMAIN subjects THEN subjects
                  ELSE subjects @@ (subj :> NewBucket)
         IN CountHomeworks(Tail(hws), [d EXCEPT ![subj].total = @ + 1])

\* s.homework.subject for the rows of subs
SubjectsOf(hws, subs) == [i \in 1..Len(subs) |-> hws[subs[i].homework_id].subject]

\* marks the bucket instead of counting into it
SubmittedOnce(subjects, subj) == [subjects EXCEPT ![subj].submitted = 1]

\* subjects[subj]["submitted"] += 1
Submitted(subjects, subj) == [subjects EXCEPT ![subj].submitted = @ + 1]

\* second loop of dashboard()
RECURSIVE CountSubmissions(_, _)
CountSubmissions(subjs, subjects) ==
    IF subjs = <<>> THEN subjects
    ELSE CountSubmissions(Tail(subjs), Submitted(subjects, Head(subjs)))

\* the second loop raises when a submission has no homework or no bucket
BreakdownFails(hws, subs) ==
    \E i \in 1..Len(subs) :
        \/ subs[i].homework_id \notin 1..Len(hws)
        \/ hws[subs[i].homework_id].subject \notin DOMAIN CountHomeworks(hws, <<>>)

Stats(hws, subs, now) ==
    [total |-> Total(hws), pending |-> Pending(hws, now), completed |-> Completed(subs),
     subjects |-> CountSubmissions(SubjectsOf(hws, subs), CountHomeworks(hws, <<>>))]

\* a lookup that never finds the row
UserMatchesNone(us, name) == {}

\* User.query.filter_by(name=student_name): the rows .first() may return
UserMatches(us, name) == {i \in 1..Len(us) : us[i].name = name}

\* an insert that keeps the name unique: hands back the row the name already has
InsertUserOnce(us, name) ==
    IF UserMatches(us, name) = {}
    THEN [users |-> Append(us, UserRow(name)), id |-> Len(us) + 1]
    ELSE [users |-> us, id |-> CHOOSE i \in UserMatches(us, name) : TRUE]

\* db.session.add(User(name=...)); commit: the table and the new row's id
InsertUser(us, name) == [users |-> Append(us, UserRow(name)), id |-> Len(us) + 1]

\* `if content is None`
BlankIfNone(content) == content = Absent

\* `if not content`
Blank(content) == ~Truthy(content)

\* `if Homework.query.count() > 1`
SeededTwice(hws) == Len(hws) > 1

\* `if Homework.query.count() > 0`
Seeded(hws) == Len(hws) > 0

-----------------------------------------------------------------------------
(* Request inputs *)

Nows == 1..MaxNow

\* ids a request may name: every row, and one id that has no row
HwIds == 1..(Len(homeworks) + 1)

CreateForms ==
    {[NoForm EXCEPT !.subject = s, !.due_date = d] :
        s \in {Absent, Given("Math")},
        d \in {Absent, Given(<<"0", "1">>), Given(<<"1", "x">>)}}

\* every author with a message that has text, and every message without
ThreadForms ==
    {[NoForm EXCEPT !.author = a, !.message = Given(<<" ", "a", " ">>)] :
        a \in {Absent, Given(""), Given("Bob")}}
    \cup {[NoForm EXCEPT !.author = Given("Bob"), !.message = m] :
        m \in {Absent, Given(<<>>), Given(<<" ">>)}}

ResourceForms ==
    {[NoForm EXCEPT !.title = Given("Notes"), !.url = u] :
        u \in {Absent, Given(""), Given("http://x")}}

SubmitForms ==
    {[NoForm EXCEPT !.student_name = n, !.content = c] :
        n \in {Absent, Given("Alice")},
        c \in {Absent, Given(""), Given(" ")}}

\* the rows the bound MaxRows counts
Rows(us, ts, rs, ss) == Len(us) + Len(ts) + Len(rs) + Len(ss)

-----------------------------------------------------------------------------
(* What each handler does with a request: the tables it writes, as it leaves *)
(* them, and its response *)

\* GET /
IndexResult(now, tie) ==
    [resp |-> [Render("index.html") EXCEPT !.upcoming = Upcoming(homeworks, now, tie)]]

\* GET and POST /homework/create
CreateResult(method, form) ==
    IF method = "POST"
    THEN IF form.subject = Absent \/ form.due_date = Absent
         THEN [homeworks |-> homeworks, resp |-> BadRequest]
         ELSE IF FromIsoFormat(form.due_date[1]) = ValueError
         THEN [homeworks |-> homeworks, resp |-> ServerError]
         ELSE [homeworks |-> Append(homeworks,
                   HomeworkRow(form.subject[1], FromIsoFormat(form.due_date[1]))),
               resp |-> Redirect("Homework created")]
    ELSE [homeworks |-> homeworks, resp |-> Render("create_homework.html")]

\* GET and POST /homework/<hw_id>
DetailResult(method, hw_id, form) ==
    IF ~Exists(hw_id)
    THEN [threads |-> threads, resp |-> NotFound]
    ELSE IF method = "POST"
    THEN LET author == OrDefault(form.author, "Anonymous")
             message == MessageOf(form.message)
         IN IF message # <<>>
            THEN [threads |-> Append(threads, ThreadRow(hw_id, author, message)),
                  resp |-> Redirect("Comment posted")]
            ELSE [threads |-> threads, resp |-> Redirect("")]
    ELSE [threads |-> threads, resp |-> Render("homework_detail.html")]

\* POST /homework/<hw_id>/resource/add
ResourceResult(hw_id, form) ==
    IF ~Exists(hw_id)
    THEN [resources |-> resources, resp |-> NotFound]
    ELSE IF Truthy(form.url)
    THEN [resources |-> Append(resources, ResourceRow(hw_id, form.title, form.url[1])),
          resp |-> Redirect("Resource added")]
    ELSE [resources |-> resources, resp |-> Redirect("")]

\* what .first() may return for the form's student: a row's id, or 0 for None
FirstUser(us, form) ==
    LET found == UserMatches(us, OrDefault(form.student_name, "Student"))
    IN IF found = {} THEN {0} ELSE found

\* POST /homework/<hw_id>/submit, `first` being what the lookup returned
SubmitResult(hw_id, form, first) ==
    IF ~Exists(hw_id)
    THEN [users |-> users, submissions |-> submissions, resp |-> NotFound]
    ELSE LET ins == InsertUser(users, OrDefault(form.student_name, "Student"))
             student == IF first = 0 THEN ins.id ELSE first
             us == IF first = 0 THEN ins.users ELSE users
         IN IF Blank(form.content)
            THEN [users |-> us, submissions |-> submissions,
                  resp |-> Redirect("Submission cannot be empty")]
            ELSE [users |-> us,
                  submissions |-> Append(submissions,
                      SubmissionRow(hw_id, student, form.content[1])),
                  resp |-> Redirect("Submitted successfully")]

\* GET /dashboard
DashboardResult(now) ==
    [resp |-> IF BreakdownFails(homeworks, submissions) THEN ServerError
              ELSE [Render("dashboard.html") EXCEPT
                       !.stats = Stats(homeworks, submissions, now)]]

SeedMessage ==
    <<"R", "e", "m", "e", "m", "b", "e", "r", " ", "t", "o", " ", "s", "h", "o", "w",
      " ", "y", "o", "u", "r", " ", "s", "t", "e", "p", "s", ".">>

\* GET /_seed
SeedResult(now) ==
    IF Seeded(homeworks)
    THEN [homeworks |-> homeworks, resources |-> resources, threads |-> threads,
          resp |-> Render("Already seeded")]
    ELSE LET hw1 == Len(homeworks) + 1
         IN [homeworks |-> homeworks \o
                 <<HomeworkRow("Math", now + 3), HomeworkRow("English", now + 7),
                   HomeworkRow("Science", now + 1)>>,
             resources |-> Append(resources,
                 ResourceRow(hw1, Given("Video explanation"),
                             "https://example.com/algebra-video")),
             threads |-> Append(threads, ThreadRow(hw1, "Teacher A", SeedMessage)),
             resp |-> Render("Seeded sample data")]

-----------------------------------------------------------------------------
(* Handlers, each run from the request to the response *)

Idle == [hw_id |-> 0, form |-> NoForm, missed |-> FALSE, student |-> 0, sub |-> 0]

Init ==
    /\ homeworks = <<>>
    /\ users = <<>>
    /\ threads = <<>>
    /\ resources = <<>>
    /\ submissions = <<>>
    /\ resp = NoResponse
    /\ pc = [p \in 1..NumProcs |-> "idle"]
    /\ plocal = [p \in 1..NumProcs |-> Idle]

Index(now, tie) ==
    /\ resp' = IndexResult(now, tie).resp
    /\ UNCHANGED <<store, procs>>

\* the model lets the handler add Homework rows up to `cap`
CreateHomework(method, form, cap) ==
    /\ LET r == CreateResult(method, form)
       IN /\ r.homeworks = homeworks \/ Len(r.homeworks) <= cap
          /\ homeworks' = r.homeworks
          /\ resp' = r.resp
    /\ UNCHANGED <<users, threads, resources, submissions, procs>>

HomeworkDetail(method, hw_id, form) ==
    /\ LET r == DetailResult(method, hw_id, form)
       IN /\ r.threads = threads \/ Rows(users, r.threads, resources, submissions) <= MaxRows
          /\ threads' = r.threads
          /\ resp' = r.resp
    /\ UNCHANGED <<homeworks, users, resources, submissions, procs>>

AddResource(hw_id, form) ==
    /\ LET r == ResourceResult(hw_id, form)
       IN /\ r.resources = resources
             \/ Rows(users, threads, r.resources, submissions) <= MaxRows
          /\ resources' = r.resources
          /\ resp' = r.resp
    /\ UNCHANGED <<homeworks, users, threads, submissions, procs>>

SubmitHomework(hw_id, form) ==
    /\ \E first \in FirstUser(users, form) :
          LET r == SubmitResult(hw_id, form, first)
          IN /\ (r.users = users /\ r.submissions = submissions)
                \/ Rows(r.users, threads, resources, r.submissions) <= MaxRows
             /\ users' = r.users
             /\ submissions' = r.submissions
             /\ resp' = r.resp
    /\ UNCHANGED <<homeworks, threads, resources, procs>>

Dashboard(now) ==
    /\ resp' = DashboardResult(now).resp
    /\ UNCHANGED <<store, procs>>

Seed(now) ==
    /\ LET r == SeedResult(now)
       IN /\ homeworks' = r.homeworks
          /\ resources' = r.resources
          /\ threads' = r.threads
          /\ resp' = r.resp
    /\ UNCHANGED <<users, submissions, procs>>

Next ==
    \/ \E now \in Nows, tie \in BOOLEAN : Index(now, tie)
    \/ CreateHomework("GET", NoForm, MaxHomework)
    \/ \E form \in CreateForms : CreateHomework("POST", form, MaxHomework)
    \/ \E hw_id \in HwIds : HomeworkDetail("GET", hw_id, NoForm)
    \/ \E hw_id \in HwIds, form \in ThreadForms : HomeworkDetail("POST", hw_id, form)
    \/ \E hw_id \in HwIds, form \in ResourceForms : AddResource(hw_id, form)
    \/ \E hw_id \in HwIds, form \in SubmitForms : SubmitHomework(hw_id, form)
    \/ \E now \in Nows : Dashboard(now)
    \/ \E now \in Nows : Seed(now)

Spec == Init /\ [][Next]_vars

-----------------------------------------------------------------------------
(* Properties of the handlers run one at a time *)

Subjects == {homeworks[i].subject : i \in 1..Len(homeworks)}

WithSubject(S) == {i \in 1..Len(homeworks) : homeworks[i].subject = S}

SubmittedTo(S) ==
    {j \in 1..Len(submissions) :
        /\ submissions[j].homework_id \in 1..Len(homeworks)
        /\ homeworks[submissions[j].homework_id].subject = S}

RECURSIVE SumSubmitted(_, _)
SumSubmitted(b, S) ==
    IF S = {} THEN 0
    ELSE LET x == CHOOSE x \in S : TRUE
         IN b[x].submitted + SumSubmitted(b, S \ {x})

\* C1: the dashboard's total is the number of Homework rows, and its completed
\* is the number of Homework rows that have at least one Submission, however
\* many submissions each has.
C1_DashboardCounts ==
    resp.body = "dashboard.html" =>
        /\ resp.stats.total = Cardinality(DOMAIN homeworks)
        /\ resp.stats.completed =
              Cardinality({h \in DOMAIN homeworks :
                  \E j \in DOMAIN submissions : submissions[j].homework_id = h})

C1_Witness ==
    /\ resp.body = "dashboard.html"
    /\ resp.stats.completed = 1
    /\ Len(submissions) = 2
    /\ resp.stats.total = 1

\* C2: the dashboard has a bucket for exactly the subjects of the Homework rows;
\* a bucket's total is the number of Homework rows of the subject and its
\* submitted is the number of Submission rows on homework of the subject; every
\* submission's subject has a bucket (the second loop never fails), and the
\* submitted counts add up to the number of Submission rows.
C2_SubjectBreakdown ==
    /\ ~BreakdownFails(homeworks, submissions)
    /\ resp.body = "dashboard.html" =>
          LET b == resp.stats.subjects
          IN /\ DOMAIN b = Subjects
             /\ \A S \in Subjects :
                   /\ b[S].total = Cardinality(WithSubject(S))
                   /\ b[S].submitted = Cardinality(SubmittedTo(S))
             /\ \A j \in DOMAIN submissions :
                   homeworks[submissions[j].homework_id].subject \in DOMAIN b
             /\ SumSubmitted(b, DOMAIN b) = Len(submissions)

C2_Witness ==
    /\ resp.body = "dashboard.html"
    /\ \E S \in DOMAIN resp.stats.subjects :
          resp.stats.subjects[S].submitted > resp.stats.subjects[S].total

\* C4: in every reachable store, a submit request for an existing homework
\* with absent or empty content leaves the Submission table as it is and is
\* answered with the warning, whatever the student name.
C4_BlankSubmission ==
    \A hw_id \in DOMAIN homeworks, form \in SubmitForms :
        form.content \in {Absent, Given("")}
        => \A first \in FirstUser(users, form) :
              LET r == SubmitResult(hw_id, form, first)
              IN /\ r.submissions = submissions
                 /\ r.resp.flash = "Submission cannot be empty"

C4_Witness ==
    /\ resp.flash = "Submission cannot be empty"
    /\ Len(submissions) > 0
    /\ Len(users) = 2

\* C5: a submit request with blank content changes no table, and a create
\* request with an unparseable due date changes no table and is answered with
\* a notice, not with a failure.
C5_ValidationNoSideEffect ==
    [][/\ \A hw_id \in DOMAIN homeworks, form \in SubmitForms :
             (form.content \in {Absent, Given("")} /\ SubmitHomework(hw_id, form))
             => UNCHANGED store
       /\ \A form \in CreateForms :
             (/\ form.subject # Absent
              /\ form.due_date = Given(<<"1", "x">>)
              /\ CreateHomework("POST", form, MaxHomework))
             => /\ UNCHANGED store
                /\ resp'.status < 400
                /\ resp'.flash # ""]_vars

\* the text of m between its first and last characters that are not whitespace
Stripped(m) ==
    LET text == {k \in 1..Len(m) : m[k] \notin Whitespace}
    IN IF text = {} THEN <<>>
       ELSE SubSeq(m, CHOOSE k \in text : \A l \in text : k <= l,
                      CHOOSE k \in text : \A l \in text : k >= l)

\* C6: in every reachable store, a thread post to an existing homework with an
\* absent, empty or whitespace-only message adds no row and is answered with
\* the redirect; with any other message it adds one Thread row on that
\* homework, holding the stripped text, by "Anonymous" when the author is
\* absent or empty and by the given author otherwise.
C6_ThreadPost ==
    \A hw_id \in DOMAIN homeworks, form \in ThreadForms :
        LET r == DetailResult("POST", hw_id, form)
        IN IF form.message = Absent \/ Stripped(form.message[1]) = <<>>
           THEN /\ r.threads = threads
                /\ r.resp.status = 302
           ELSE r.threads = Append(threads,
                    [homework_id |-> hw_id,
                     author |-> IF form.author \in {Absent, Given("")}
                                THEN "Anonymous" ELSE form.author[1],
                     message |-> Stripped(form.message[1])])

C6_Witness ==
    /\ resp.flash = "Comment posted"
    /\ \E k \in DOMAIN threads :
          threads[k].author = "Anonymous" /\ threads[k].message = <<"a">>

\* C7: handled one at a time, submit requests never leave two User rows with
\* one name, and a submit under a name that has a User row adds no User row.
C7_NoDuplicateUser ==
    /\ \A i, j \in DOMAIN users : users[i].name = users[j].name => i = j
    /\ \A hw_id \in HwIds, form \in SubmitForms :
          (\E i \in DOMAIN users :
              users[i].name = (IF form.student_name \in {Absent, Given("")}
                               THEN "Student" ELSE form.student_name[1]))
          => \A first \in FirstUser(users, form) :
                SubmitResult(hw_id, form, first).users = users

C7_Witness ==
    /\ Len(users) = 2
    /\ resp.flash = "Submitted successfully"
    /\ \E i, j \in DOMAIN submissions :
          i # j /\ submissions[i].student_id = submissions[j].student_id

\* C8: in every reachable store, the seed request writes nothing and answers
\* 'Already seeded' when a Homework row exists; on a store without Homework
\* rows it adds exactly 3 Homework, 1 Resource and 1 Thread.
C8_SeedOnce ==
    \A now \in Nows :
        LET r == SeedResult(now)
        IN IF Len(homeworks) > 0
           THEN /\ r.homeworks = homeworks
                /\ r.resources = resources
                /\ r.threads = threads
                /\ r.resp.body = "Already seeded"
           ELSE /\ Len(r.homeworks) = Len(homeworks) + 3
                /\ Len(r.resources) = Len(resources) + 1
                /\ Len(r.threads) = Len(threads) + 1

C8_Witness ==
    /\ resp.body = "Already seeded"
    /\ Len(homeworks) = 3
    /\ Len(resources) = 1
    /\ Len(threads) = 1

\* C10: every Submission names an existing Homework and an existing User, and
\* every Thread and Resource an existing Homework; a thread, resource or submit
\* request for an id without a Homework row is answered 404 and adds no row.
C10_References ==
    /\ \A j \in DOMAIN submissions :
          /\ submissions[j].homework_id \in DOMAIN homeworks
          /\ submissions[j].student_id \in DOMAIN users
    /\ \A k \in DOMAIN threads : threads[k].homework_id \in DOMAIN homeworks
    /\ \A k \in DOMAIN resources : resources[k].homework_id \in DOMAIN homeworks
    /\ \A hw_id \in HwIds \ DOMAIN homeworks :
          /\ \A form \in ThreadForms :
                DetailResult("POST", hw_id, form) = [threads |-> threads, resp |-> NotFound]
          /\ \A form \in ResourceForms :
                ResourceResult(hw_id, form) = [resources |-> resources, resp |-> NotFound]
          /\ \A form \in SubmitForms :
                \A first \in FirstUser(users, form) :
                    SubmitResult(hw_id, form, first) =
                        [users |-> users, submissions |-> submissions, resp |-> NotFound]

C10_Witness ==
    /\ resp.status = 404
    /\ Len(submissions) > 0
    /\ Len(threads) > 0
    /\ Len(resources) > 0

-----------------------------------------------------------------------------
(* The homepage over a store grown by create_homework alone *)

ListForms ==
    {[NoForm EXCEPT !.subject = Given("Math"), !.due_date = d] :
        d \in {Given(<<"0", "1">>), Given(<<"0", "2">>)}}

NextIndex ==
    \/ \E form \in ListForms : CreateHomework("POST", form, MaxListed)
    \/ \E now \in Nows, tie \in BOOLEAN : Index(now, tie)

SpecIndex == Init /\ [][NextIndex]_vars

Listed(up) == {up[k] : k \in DOMAIN up}

\* C3: over every reachable store and every `now`, the homepage lists only
\* Homework due at or after `now`, each once, in ascending order of due date,
\* at most 10 of them, and leaves out a Homework due at or after `now` only
\* when 10 are listed, none of them due later.
C3_Upcoming ==
    \A now \in Nows, tie \in BOOLEAN :
        LET up == IndexResult(now, tie).resp.upcoming
        IN /\ \A k \in DOMAIN up :
                 up[k] \in DOMAIN homeworks /\ homeworks[up[k]].due_date >= now
           /\ \A k, l \in DOMAIN up :
                 k < l => /\ up[k] # up[l]
                          /\ homeworks[up[k]].due_date <= homeworks[up[l]].due_date
           /\ Len(up) <= 10
           /\ \A h \in DOMAIN homeworks :
                 (homeworks[h].due_date >= now /\ h \notin Listed(up))
                 => /\ Len(up) = 10
                    /\ \A k \in DOMAIN up :
                          homeworks[up[k]].due_date <= homeworks[h].due_date

C3_Witness ==
    /\ resp.body = "index.html"
    /\ Len(resp.upcoming) = 10
    /\ \E h \in DOMAIN homeworks :
          /\ h \notin Listed(resp.upcoming)
          /\ homeworks[h].due_date >= homeworks[resp.upcoming[1]].due_date
    /\ homeworks[resp.upcoming[1]].due_date < homeworks[resp.upcoming[10]].due_date

-----------------------------------------------------------------------------
(* submit_homework run by several requests at once: a request holds its place *)
(* in the handler between one statement that reaches the database and the next *)

Procs == 1..NumProcs

InFlight == {p \in Procs : pc[p] \in {"lookup", "insert", "content"}}

ConcForms == {[NoForm EXCEPT !.subject = Given("Math"), !.due_date = Given(<<"0", "1">>)]}

ConcSubmitForms ==
    {[NoForm EXCEPT !.student_name = n, !.content = Given(" ")] :
        n \in {Absent, Given("Alice")}}

\* hw = Homework.query.get_or_404(hw_id); the model admits a request when the
\* tables have room for the two rows it may add
SubmitBegin(p, hw_id, form) ==
    /\ pc[p] \in {"idle", "done"}
    /\ UNCHANGED store
    /\ IF ~Exists(hw_id)
       THEN /\ pc' = [pc EXCEPT ![p] = "done"]
            /\ plocal' = [plocal EXCEPT ![p] = [Idle EXCEPT !.hw_id = hw_id, !.form = form]]
            /\ resp' = NotFound
       ELSE /\ Rows(users, threads, resources, submissions)
                  + 2 * (Cardinality(InFlight) + 1) <= MaxRows
            /\ pc' = [pc EXCEPT ![p] = "lookup"]
            /\ plocal' = [plocal EXCEPT ![p] = [Idle EXCEPT !.hw_id = hw_id, !.form = form]]
            /\ UNCHANGED resp

\* student = User.query.filter_by(name=student_name).first()
SubmitLookup(p) ==
    /\ pc[p] = "lookup"
    /\ LET student_name == OrDefault(plocal[p].form.student_name, "Student")
           found == UserMatches(users, student_name)
       IN \E first \in (IF found = {} THEN {0} ELSE found) :
             /\ plocal' = [plocal EXCEPT ![p].student = first, ![p].missed = (first = 0)]
             /\ pc' = [pc EXCEPT ![p] = IF first = 0 THEN "insert" ELSE "content"]
    /\ UNCHANGED <<store, resp>>

\* student = User(name=student_name); add; commit
SubmitInsertUser(p) ==
    /\ pc[p] = "insert"
    /\ LET ins == InsertUser(users, OrDefault(plocal[p].form.student_name, "Student"))
       IN /\ users' = ins.users
          /\ plocal' = [plocal EXCEPT ![p].student = ins.id]
    /\ pc' = [pc EXCEPT ![p] = "content"]
    /\ UNCHANGED <<homeworks, threads, resources, submissions, resp>>

\* the content check, and the Submission's add and commit
SubmitFinish(p) ==
    /\ pc[p] = "content"
    /\ pc' = [pc EXCEPT ![p] = "done"]
    /\ UNCHANGED <<homeworks, users, threads, resources>>
    /\ IF Blank(plocal[p].form.content)
       THEN /\ resp' = Redirect("Submission cannot be empty")
            /\ UNCHANGED <<submissions, plocal>>
       ELSE /\ submissions' = Append(submissions,
                   SubmissionRow(plocal[p].hw_id, plocal[p].student,
                                 plocal[p].form.content[1]))
            /\ plocal' = [plocal EXCEPT ![p].sub = Len(submissions) + 1]
            /\ resp' = Redirect("Submitted successfully")

NextConc ==
    \/ \E form \in ConcForms : CreateHomework("POST", form, MaxHomework)
    \/ \E p \in Procs, hw_id \in HwIds, form \in ConcSubmitForms : SubmitBegin(p, hw_id, form)
    \/ \E p \in Procs : SubmitLookup(p)
    \/ \E p \in Procs : SubmitInsertUser(p)
    \/ \E p \in Procs : SubmitFinish(p)

SpecConc == Init /\ [][NextConc]_vars

NameOf(p) == OrDefault(plocal[p].form.student_name, "Student")

\* C9: when two submit requests under one name have both looked the name up
\* without finding it, then once both are past the insert each holds a User row
\* of its own with that name, and their Submissions name different Users.
C9_DuplicateUsers ==
    \A p, q \in Procs :
        (/\ p # q
         /\ plocal[p].missed /\ plocal[q].missed
         /\ NameOf(p) = NameOf(q)
         /\ pc[p] \in {"content", "done"} /\ pc[q] \in {"content", "done"})
        => /\ plocal[p].student # plocal[q].student
           /\ users[plocal[p].student].name = NameOf(p)
           /\ users[plocal[q].student].name = NameOf(p)
           /\ (plocal[p].sub # 0 /\ plocal[q].sub # 0)
              => /\ submissions[plocal[p].sub].student_id = plocal[p].student
                 /\ submissions[plocal[q].sub].student_id = plocal[q].student

C9_Witness ==
    /\ \A p \in Procs : pc[p] = "done"
    /\ \E i, j \in DOMAIN users : i # j /\ users[i].name = users[j].name
    /\ \E i, j \in DOMAIN submissions :
          /\ submissions[i].student_id # submissions[j].student_id
          /\ users[submissions[i].student_id].name = users[submissions[j].student_id].name

====
